---- MODULE Spec2Model ----
(***************************************************************************)
(* Model of prob_mbrl: the cart-pole environment (envs/cartpole/env.py)    *)
(* and the research utilities (utils/core.py).                             *)
(*                                                                         *)
(* Units.  Lengths are integers in units of 0.1 m (x_lim 3.5 is 35, the    *)
(* default pole length 0.5 is 5).  Angles are integers indexing twelve     *)
(* directions per turn whose sine and cosine are exact multiples of 1/5:   *)
(* index 0 is angle 0, 1 is atan(3/4), 2 is atan(4/3), 3 is pi/2, and so   *)
(* on by quarter turns; pi is 6 and a whole turn is 12.  The index is      *)
(* monotone in the angle, so comparisons of angles are comparisons of      *)
(* indices, and adding a multiple of a quarter turn or negating an angle   *)
(* stays on the grid.                                                      *)
(***************************************************************************)
EXTENDS Integers, Sequences, FiniteSets

VARIABLES
    \* ---- Cartpole (env.py) ----
    state,        \* self.state: None or <<x, dx, theta, dtheta>>
    lastStep,     \* <<>> or <<r>>: the arguments, base result and result of the last step()
    viewer,       \* self.viewer is not None
    carttrans,    \* self.carttrans: the translation x of each trail slot
    poletrans,    \* self.poletrans: the rotation of each trail slot
    renderRet,    \* what the last render() did: "NotCalled", "None", "shown", "rgb_array", "IndexError"
    rendered,     \* history: the poses of the render() calls that completed since the viewer exists
    \* ---- CartpoleReward (env.py) ----
    rewardFn,     \* the module's parameters: Q, R, target, pole_length
    rin,          \* the state and action forward() is applied to
    outRaw,       \* <<>> or <<forward(x, u)>>
    outEnc,       \* <<>> or <<forward(to_complex(x), u)>>
    outShift,     \* <<>> or <<forward(x with the angle a whole turn further, u)>>
    \* ---- load_checkpoint (core.py) ----
    lcPc,         \* "idle", the load about to be attempted, "done" or "raised"
    lcArgs,       \* [pathOk: path is a str or path-like, val: val is not None]
    lcLog,        \* the loads attempted, in order, each with how it ended
    lcWarnings,   \* the loads a warning was issued for, in order
    \* ---- train_model (core.py) ----
    tmPc,         \* "idle", the next operation of train_model, or "done"
    tmArgs,       \* [n_iters, n: the number of examples in X, batch_size]
    tmMode,       \* the model's mode: "unset", "train" or "eval"
    tmI,          \* the iterations completed
    tmTrace,      \* the operations train_model has performed, in order
    tmDataIter,   \* data_iter of train_model's scope: the examples its pass has left
    tmPasses,     \* the number of iter(dataloader) calls
    tmDrawn,      \* how often each example was drawn by next_batch
    \* ---- tqdm_joblib (core.py) ----
    cbClass,      \* joblib.parallel.BatchCompletionCallBack: <<>> is joblib's own class, <<b, ...>>
                  \* the class patched for bar b whose base class is the rest
    ctxStack,     \* the tqdm_joblib contexts entered and not left, outermost first
    propagating,  \* an exception raised by a body is propagating
    barState,     \* each progress bar: "new", "open" (inside its context) or "closed"
    barN,         \* each progress bar's count
    jobs,         \* the batches dispatched: [id, cls: the callback class, size, done]
    submitted,    \* history: the tasks dispatched inside each bar's context
    cbLog,        \* the calls made by the last completion callback, in order
    origCalls     \* the batches joblib's own callback was called for, with its arguments

envVars == <<state, lastStep, viewer, carttrans, poletrans, renderRet, rendered>>
rewardVars == <<rewardFn, rin, outRaw, outEnc, outShift>>
loadVars == <<lcPc, lcArgs, lcLog, lcWarnings>>
trainVars == <<tmPc, tmArgs, tmMode, tmI, tmTrace, tmDataIter, tmPasses, tmDrawn>>
tqdmVars == <<cbClass, ctxStack, propagating, barState, barN, jobs, submitted, cbLog, origCalls>>

vars == <<envVars, rewardVars, loadVars, trainVars, tqdmVars>>

\* Python's None where a state vector is expected
None == <<>>
Pi == 6
TwoPi == 2 * Pi

(***************************************************************************)
(* Cartpole.step                                                           *)
(***************************************************************************)
\* the values the model lets the cart position and the pole angle take
StepXs == {-36, -35, 0, 20, 21, 35, 36}
StepThetas == {-4 * Pi - 1, -4 * Pi, 0, Pi, Pi + 1, 4 * Pi, 4 * Pi + 1}
StepStates == {<<x, 0, th, 0>> : x \in StepXs, th \in StepThetas}

DefaultXLim == <<-35, 35>>
DefaultAngLim == <<-4 * Pi, 4 * Pi>>
XLims == {DefaultXLim, <<-20, 20>>}
AngLims == {DefaultAngLim, <<-Pi, Pi>>}
Actions == {0, 10}
NoiseVals == {0, 1}

\* GymEnv.step (base class): advances self.state and returns the noisy
\* measurement of it, the reward, its own done flag and an info dict.
BaseStep(s, action) ==
    { [newstate |-> ns,
       ret |-> [state |-> <<ns[1] + e, ns[2], ns[3], ns[4]>>,
                reward |-> r, done |-> d, info |-> [action |-> action]]] :
        ns \in StepStates, e \in NoiseVals, r \in {0, 1}, d \in BOOLEAN }

\* GymEnv.reset (base class): self.state becomes a sample around init_state.
BaseReset(init_state) == init_state

\* mutant: the limits taken as exclusive bounds
StepDoneExclusive(st, x_lim, ang_lim, done) ==
    LET d1 == IF st[1] <= x_lim[1] \/ st[1] >= x_lim[2] THEN TRUE ELSE done
    IN  IF st[3] <= ang_lim[1] \/ st[3] >= ang_lim[2] THEN TRUE ELSE d1

\* lines 163-166: the done flag step() returns, from self.state after the base step
StepDone(st, x_lim, ang_lim, done) ==
    LET d1 == IF st[1] < x_lim[1] \/ st[1] > x_lim[2] THEN TRUE ELSE done
    IN  IF st[3] < ang_lim[1] \/ st[3] > ang_lim[2] THEN TRUE ELSE d1

Step(action, x_lim, ang_lim) ==
    /\ state # None
    /\ \E b \in BaseStep(state, action) :
          /\ state' = b.newstate
          /\ lastStep' = << [x_lim |-> x_lim, ang_lim |-> ang_lim, base |-> b.ret,
                             ret |-> [state |-> b.ret.state,
                                      reward |-> b.ret.reward,
                                      done |-> StepDone(b.newstate, x_lim, ang_lim, b.ret.done),
                                      info |-> b.ret.info]] >>
    /\ UNCHANGED <<viewer, carttrans, poletrans, renderRet, rendered>>
    /\ UNCHANGED <<rewardVars, loadVars, trainVars, tqdmVars>>

Reset(init_state) ==
    /\ state' = BaseReset(init_state)
    /\ lastStep' = <<>>
    /\ UNCHANGED <<viewer, carttrans, poletrans, renderRet, rendered>>
    /\ UNCHANGED <<rewardVars, loadVars, trainVars, tqdmVars>>

(***************************************************************************)
(* Cartpole.render                                                         *)
(***************************************************************************)
MaxTrail == 2
screen_width == 600
\* scale = screen_width / world_width = 600 / 2.5 = 240 per metre, 24 per 0.1 m
ScalePerUnit == 24
RenderStates == {<<0, 0, 0, 0>>, <<10, 0, 1, 0>>, <<-10, 0, Pi, 0>>}
Modes == {"human", "rgb_array"}

Max(a, b) == IF a >= b THEN a ELSE b
Min(a, b) == IF a <= b THEN a ELSE b

\* line 191: cartx = x * scale + screen_width / 2.0
CartX(st) == st[1] * ScalePerUnit + screen_width \div 2
\* line 246: the rotation render() gives the newest slot
PoleRot(st) == st[3] + Pi
\* line 234: the rotation every slot gets when the viewer is created
InitRot(st) == -st[3] - Pi

\* lines 240-243 as far as they run: slot i takes slot i+1 for i = 0..n-1
RECURSIVE ShiftLeft(_, _)
ShiftLeft(s, n) ==
    IF n = 0 THEN s
    ELSE LET t == ShiftLeft(s, n - 1) IN [t EXCEPT ![n] = t[n + 1]]

\* lines 240-243: for i in range(N - 1); reading slot i+1 past the end raises
\* IndexError after the earlier slots were moved
Shifted(s, N) == ShiftLeft(s, Min(N - 1, Len(s) - 1))

SetLast(s, v) == [s EXCEPT ![Len(s)] = v]

Render(mode, N0) ==
    LET N == Max(1, N0) IN
    /\ UNCHANGED <<rewardVars, loadVars, trainVars, tqdmVars>>
    /\ IF state = None
       THEN /\ renderRet' = "None"
            /\ UNCHANGED <<state, lastStep, viewer, carttrans, poletrans, rendered>>
       ELSE LET ct0 == IF viewer THEN carttrans ELSE [i \in 1..N |-> CartX(state)]
                pt0 == IF viewer THEN poletrans ELSE [i \in 1..N |-> InitRot(state)]
                fails == N > Len(ct0)
                pose == <<CartX(state), PoleRot(state)>>
                hist == IF viewer THEN rendered ELSE <<>>
            IN  /\ viewer' = TRUE
                /\ IF fails
                   THEN /\ carttrans' = Shifted(ct0, N)
                        /\ poletrans' = Shifted(pt0, N)
                        /\ renderRet' = "IndexError"
                        /\ rendered' = hist
                   ELSE /\ carttrans' = SetLast(Shifted(ct0, N), pose[1])
                        /\ poletrans' = SetLast(Shifted(pt0, N), pose[2])
                        /\ renderRet' = IF mode = "rgb_array" THEN "rgb_array" ELSE "shown"
                        /\ rendered' = LET h == Append(hist, pose)
                                       IN  IF Len(h) > Len(ct0) THEN Tail(h) ELSE h
                /\ UNCHANGED <<state, lastStep>>

\* C1: after step(), done is True when the cart position or the pole angle of
\* the environment state is outside its limits, it is the base step's done when
\* both are inside (bounds inclusive), and state, reward and info are the base
\* step's.
C1_StepDone ==
    lastStep # <<>> =>
        LET r == lastStep[1]
            outside == \/ state[1] < r.x_lim[1] \/ state[1] > r.x_lim[2]
                       \/ state[3] < r.ang_lim[1] \/ state[3] > r.ang_lim[2]
        IN  /\ outside => r.ret.done = TRUE
            /\ ~outside => r.ret.done = r.base.done
            /\ r.ret.state = r.base.state
            /\ r.ret.reward = r.base.reward
            /\ r.ret.info = r.base.info

\* a step that ended exactly on the upper position limit and on the lower angle
\* limit, the base step saying not done, and the returned measurement differing
\* from the environment state
C1_Witness ==
    /\ lastStep # <<>>
    /\ state[1] = lastStep[1].x_lim[2]
    /\ state[3] = lastStep[1].ang_lim[1]
    /\ lastStep[1].base.done = FALSE
    /\ lastStep[1].ret.done = FALSE
    /\ lastStep[1].ret.state # state

\* C10: render() returns None and creates no viewer while the state is None;
\* with a viewer, no render call fails and the newest slots hold the poses of
\* the most recent render calls, oldest first, whatever N each call is given.
C10_RenderTrail ==
    /\ state = None => ~viewer /\ renderRet \in {"NotCalled", "None"}
    /\ viewer =>
          /\ renderRet # "IndexError"
          /\ LET L == Len(carttrans)
                 m == Len(rendered)
             IN  \A j \in 1..m :
                    /\ carttrans[L - m + j] = rendered[j][1]
                    /\ poletrans[L - m + j] = rendered[j][2]

(***************************************************************************)
(* CartpoleReward                                                          *)
(*                                                                         *)
(* A raw state is <<x, dx, theta, dtheta>>; its encoded form is            *)
(* <<x, dx, dtheta, 5 sin(theta), 5 cos(theta)>>.  Q is a 2x2 matrix       *)
(* <<<<q11, q12>>, <<q21, q22>>>>, R a number in units of 1e-4 (the        *)
(* default R is 1), the action u a number.                                 *)
(***************************************************************************)
Sin5Table == <<0, 3, 4, 5, 4, 3, 0, -3, -4, -5, -4, -3>>
Cos5Table == <<5, 4, 3, 0, -3, -4, -5, -4, -3, 0, 3, 4>>
Sin5(k) == Sin5Table[(k % TwoPi) + 1]
Cos5(k) == Cos5Table[(k % TwoPi) + 1]

\* angles.to_complex(x, [2]): the angle dimension is dropped and its sine and
\* cosine are appended after the other dimensions
to_complex(x) == <<x[1], x[2], x[4], Sin5(x[3]), Cos5(x[3])>>

DefaultTarget == <<0, 0, Pi, 0>>
DefaultQ == <<<<16, 0>>, <<0, 16>>>>
DefaultR == 1
DefaultPoleLength == 5

\* lines 55-59 and 64-68: 5 x the tip of the pole of an encoded state
TipXY(xa, l) == <<5 * xa[1] + l * xa[4], -l * xa[5]>>

\* d Q d^T for a row vector d
Quad(d, Q) == d[1] * (Q[1][1] * d[1] + Q[2][1] * d[2])
              + d[2] * (Q[1][2] * d[1] + Q[2][2] * d[2])

\* exp(-104) < 2^-150 < exp(-103.97): a float32 exponential of a cost above
\* 103.97 is 0.0 (costs in hundredths)
ExpUnderflowCost == 10397

\* line 85, (-cost).exp() in the dtype of Q (float32): the value is 0.0 when
\* zero, and exp(-cost[1] / cost[2]) otherwise (the denominators of Cost are
\* multiples of 100)
ExpNeg(cost) ==
    [zero |-> cost[1] > ExpUnderflowCost * (cost[2] \div 100), cost |-> cost]

\* mutant: the sign of the action term flipped
CostSignSlip(fn, xa, targeta, u) ==
    LET l == fn.pole_length
        tip == TipXY(xa, l)
        ttip == TipXY(targeta, l)
        D == <<tip[1] - ttip[1], tip[2] - ttip[2]>>
    IN  <<100 * Quad(D, fn.Q) - l * l * fn.R * u * u, 20000 * l * l>>

\* lines 76-81: cost = 0.5 * (delta Q delta^T + u R u^T) with
\* delta = (pole_tip_xy - target_tip_xy) / (2 * pole_length), as the fraction
\* <<numerator, denominator>>: delta = D / (10 l) and R = fn.R / 10000
Cost(fn, xa, targeta, u) ==
    LET l == fn.pole_length
        tip == TipXY(xa, l)
        ttip == TipXY(targeta, l)
        D == <<tip[1] - ttip[1], tip[2] - ttip[2]>>
    IN  <<100 * Quad(D, fn.Q) + l * l * fn.R * u * u, 20000 * l * l>>

\* mutant: every input encoded, an encoded one too
EncodedAlways(x, targeta) == to_complex(x)

\* lines 60-63: an input as wide as the encoded target is taken as encoded
Encoded(x, targeta) ==
    IF Len(x) # Len(targeta) THEN to_complex(x) ELSE x

\* CartpoleReward.forward
forward(fn, x, u) ==
    LET targeta == to_complex(fn.target)
        xa == Encoded(x, targeta)
    IN  ExpNeg(Cost(fn, xa, targeta, u))

RewardXs == {-40, -5, 0, 3, 10, 37}
RewardThetas == -2..12
RewardUs == {-10, 0, 1}
Qs == {DefaultQ, <<<<2, 1>>, <<1, 2>>>>, <<<<1, 2>>, <<2, 4>>>>, <<<<1, 0>>, <<0, -1>>>>}
Rs == {0, DefaultR, -10000}
PoleLengths == {DefaultPoleLength, 10}
Targets == {DefaultTarget, <<10, 0, 1, 0>>}

InitReward ==
    /\ rewardFn \in [Q : Qs, R : Rs, target : Targets, pole_length : PoleLengths]
    /\ rin \in [x : {<<x, 0, th, w>> : x \in RewardXs, th \in RewardThetas, w \in {0, -1}},
              u : RewardUs]
    /\ outRaw = <<>>
    /\ outEnc = <<>>
    /\ outShift = <<>>

ForwardRaw ==
    /\ outRaw = <<>>
    /\ outRaw' = <<forward(rewardFn, rin.x, rin.u)>>
    /\ UNCHANGED <<rewardFn, rin, outEnc, outShift>>
    /\ UNCHANGED <<envVars, loadVars, trainVars, tqdmVars>>

ForwardEncoded ==
    /\ outEnc = <<>>
    /\ outEnc' = <<forward(rewardFn, to_complex(rin.x), rin.u)>>
    /\ UNCHANGED <<rewardFn, rin, outRaw, outShift>>
    /\ UNCHANGED <<envVars, loadVars, trainVars, tqdmVars>>

ForwardShifted ==
    /\ outShift = <<>>
    /\ outShift' = <<forward(rewardFn, [rin.x EXCEPT ![3] = @ + TwoPi], rin.u)>>
    /\ UNCHANGED <<rewardFn, rin, outRaw, outEnc>>
    /\ UNCHANGED <<envVars, loadVars, trainVars, tqdmVars>>

NextReward == ForwardRaw \/ ForwardEncoded \/ ForwardShifted

(***************************************************************************)
(* load_checkpoint                                                         *)
(***************************************************************************)
\* how the try block of a load can end: "ok", or the call that raised.
\* os.path.join raises TypeError when path is not a str or path-like, and the
\* experience block has no torch.load.
Outcomes(stage, pathOk) ==
    IF ~pathOk THEN {"join"}
    ELSE IF stage = "experience" THEN {"ok", "load"}
    ELSE {"ok", "torch.load", "load"}

\* lines 206, 212, 220, 226: the handlers of the dynamics and policy loads
\* format path; those of the critic and experience loads format val_path and
\* exp_path, which are unbound when os.path.join raised, so that the handler
\* itself raises UnboundLocalError
HandlerRaises(stage, outcome) ==
    stage \in {"critic", "experience"} /\ outcome = "join"

\* the load after this one (line 214: the critic only when val is not None)
NextLoad(stage, val) ==
    CASE stage = "dynamics" -> "policy"
      [] stage = "policy" -> IF val THEN "critic" ELSE "experience"
      [] stage = "critic" -> "experience"
      [] stage = "experience" -> "done"

\* one try/except block of load_checkpoint
Load(stage) ==
    /\ lcPc = stage
    /\ \E o \in Outcomes(stage, lcArgs.pathOk) :
          /\ lcLog' = Append(lcLog, [load |-> stage, outcome |-> o])
          /\ IF o = "ok"
             THEN /\ lcWarnings' = lcWarnings
                  /\ lcPc' = NextLoad(stage, lcArgs.val)
             ELSE IF HandlerRaises(stage, o)
             THEN /\ lcWarnings' = lcWarnings
                  /\ lcPc' = "raised"
             ELSE /\ lcWarnings' = Append(lcWarnings, stage)
                  /\ lcPc' = NextLoad(stage, lcArgs.val)
    /\ UNCHANGED lcArgs
    /\ UNCHANGED <<envVars, rewardVars, trainVars, tqdmVars>>

LoadCheckpoint(pathOk, val) ==
    /\ lcPc \in {"idle", "done", "raised"}
    /\ lcPc' = "dynamics"
    /\ lcArgs' = [pathOk |-> pathOk, val |-> val]
    /\ lcLog' = <<>>
    /\ lcWarnings' = <<>>
    /\ UNCHANGED <<envVars, rewardVars, trainVars, tqdmVars>>

LoadDynamics == Load("dynamics")
LoadPolicy == Load("policy")
LoadCritic == Load("critic")
LoadExperience == Load("experience")

InitLoad ==
    /\ lcPc = "idle"
    /\ lcArgs = [pathOk |-> TRUE, val |-> FALSE]
    /\ lcLog = <<>>
    /\ lcWarnings = <<>>

NextLoadCheckpoint ==
    \/ \E pathOk \in BOOLEAN, val \in BOOLEAN : LoadCheckpoint(pathOk, val)
    \/ LoadDynamics
    \/ LoadPolicy
    \/ LoadCritic
    \/ LoadExperience

RECURSIVE SelectFailed(_)
SelectFailed(log) ==
    IF log = <<>> THEN <<>>
    ELSE IF log[1].outcome = "ok" THEN SelectFailed(Tail(log))
    ELSE <<log[1].load>> \o SelectFailed(Tail(log))

\* C2: load_checkpoint never raises; when it returns, the dynamics, policy,
\* critic (when val is not None) and experience loads were all attempted, in
\* that order, whichever of them failed, and each failure gave one warning.
C2_LoadsIndependent ==
    /\ lcPc # "raised"
    /\ lcPc = "done" =>
          /\ [i \in 1..Len(lcLog) |-> lcLog[i].load]
               = IF lcArgs.val THEN <<"dynamics", "policy", "critic", "experience">>
                 ELSE <<"dynamics", "policy", "experience">>
          /\ lcWarnings = SelectFailed(lcLog)

(***************************************************************************)
(* train_model                                                             *)
(***************************************************************************)
MaxIters == 2
MaxData == 3
MaxBatch == 2

\* iter(dataloader) with shuffle=True: a fresh pass is a permutation of the
\* examples, served in batches of batch_size
Passes(n) ==
    {p \in [1..n -> 1..n] : \A i, j \in 1..n : p[i] = p[j] => i = j}

\* next(it) of a pass with the examples `it` left: its first batch_size ones
FirstBatch(it, batch_size) == SubSeq(it, 1, Min(batch_size, Len(it)))

\* lines 251-258, next_batch(): data_iter is assigned in the body (line 256),
\* so it is a local of next_batch, unbound at line 254; next(data_iter) raises
\* UnboundLocalError, which `except BaseException` catches, and the batch is
\* the first one of a new pass.  The data_iter of line 249 is never read.
\* [batch, outer: data_iter of train_model afterwards, passes: passes started]
next_batch(outer, n, batch_size) ==
    { [batch |-> FirstBatch(p, batch_size), outer |-> outer, passes |-> 1] :
        p \in Passes(n) }

\* mutant: the loop running once more than n_iters
LoopEntryOffByOne(i, n_iters) == IF i <= n_iters THEN "zero_grad" ELSE "eval"

\* lines 261-262 and 275: for i in range(n_iters), then model.eval()
LoopEntry(i, n_iters) == IF i < n_iters THEN "zero_grad" ELSE "eval"

\* lines 229-249: model.train(), the optimizer, the data loader and data_iter
TrainModel(n_iters, n, batch_size) ==
    /\ tmPc \in {"idle", "done"}
    /\ tmArgs' = [n_iters |-> n_iters, n |-> n, batch_size |-> batch_size]
    /\ tmMode' = "train"
    /\ tmI' = 0
    /\ tmTrace' = <<"train">>
    /\ tmDataIter' \in Passes(n)
    /\ tmPasses' = 1
    /\ tmDrawn' = [e \in 1..n |-> 0]
    /\ tmPc' = LoopEntry(0, n_iters)
    /\ UNCHANGED <<envVars, rewardVars, loadVars, tqdmVars>>

\* line 263
ZeroGrad ==
    /\ tmPc = "zero_grad"
    /\ tmTrace' = Append(tmTrace, "zero_grad")
    /\ tmPc' = "next_batch"
    /\ UNCHANGED <<tmArgs, tmMode, tmI, tmDataIter, tmPasses, tmDrawn>>
    /\ UNCHANGED <<envVars, rewardVars, loadVars, tqdmVars>>

\* line 264
NextBatch ==
    /\ tmPc = "next_batch"
    /\ \E r \in next_batch(tmDataIter, tmArgs.n, tmArgs.batch_size) :
          /\ tmDataIter' = r.outer
          /\ tmPasses' = tmPasses + r.passes
          /\ tmDrawn' = [e \in 1..tmArgs.n |->
                           tmDrawn[e] + Cardinality({k \in 1..Len(r.batch) : r.batch[k] = e})]
    /\ tmTrace' = Append(tmTrace, "next_batch")
    /\ tmPc' = "forward"
    /\ UNCHANGED <<tmArgs, tmMode, tmI>>
    /\ UNCHANGED <<envVars, rewardVars, loadVars, tqdmVars>>

\* lines 265-268
ForwardPass ==
    /\ tmPc = "forward"
    /\ tmTrace' = Append(tmTrace, "forward")
    /\ tmPc' = "backward"
    /\ UNCHANGED <<tmArgs, tmMode, tmI, tmDataIter, tmPasses, tmDrawn>>
    /\ UNCHANGED <<envVars, rewardVars, loadVars, tqdmVars>>

\* line 269
Backward ==
    /\ tmPc = "backward"
    /\ tmTrace' = Append(tmTrace, "backward")
    /\ tmPc' = "step"
    /\ UNCHANGED <<tmArgs, tmMode, tmI, tmDataIter, tmPasses, tmDrawn>>
    /\ UNCHANGED <<envVars, rewardVars, loadVars, tqdmVars>>

\* lines 270-274, and back to the loop header
OptStep ==
    /\ tmPc = "step"
    /\ tmTrace' = Append(tmTrace, "step")
    /\ tmI' = tmI + 1
    /\ tmPc' = LoopEntry(tmI + 1, tmArgs.n_iters)
    /\ UNCHANGED <<tmArgs, tmMode, tmDataIter, tmPasses, tmDrawn>>
    /\ UNCHANGED <<envVars, rewardVars, loadVars, tqdmVars>>

\* line 275
Eval ==
    /\ tmPc = "eval"
    /\ tmMode' = "eval"
    /\ tmTrace' = Append(tmTrace, "eval")
    /\ tmPc' = "done"
    /\ UNCHANGED <<tmArgs, tmI, tmDataIter, tmPasses, tmDrawn>>
    /\ UNCHANGED <<envVars, rewardVars, loadVars, tqdmVars>>

InitTrain ==
    /\ tmPc = "idle"
    /\ tmArgs = [n_iters |-> 0, n |-> 1, batch_size |-> 1]
    /\ tmMode = "unset"
    /\ tmI = 0
    /\ tmTrace = <<>>
    /\ tmDataIter = <<>>
    /\ tmPasses = 0
    /\ tmDrawn = [e \in 1..1 |-> 0]

NextTrain ==
    \/ \E k \in 0..MaxIters, n \in 1..MaxData, b \in 1..MaxBatch : TrainModel(k, n, b)
    \/ ZeroGrad
    \/ NextBatch
    \/ ForwardPass
    \/ Backward
    \/ OptStep
    \/ Eval

\* the operations of one iteration, in the order the claim gives
IterationOps == <<"zero_grad", "next_batch", "forward", "backward", "step">>

RECURSIVE Repeat(_, _)
Repeat(ops, k) == IF k = 0 THEN <<>> ELSE ops \o Repeat(ops, k - 1)

IsPrefix(a, b) == Len(a) <= Len(b) /\ a = SubSeq(b, 1, Len(a))

CountOf(op, trace) == Cardinality({k \in 1..Len(trace) : trace[k] = op})

\* C5: train_model puts the model in training mode first, then performs exactly
\* n_iters iterations of zero_grad, next_batch, forward, backward, step in that
\* order, and puts the model in evaluation mode last; with n_iters = 0 no
\* optimizer step is taken and the model still ends in evaluation mode.
C5_TrainLoopOrder ==
    LET whole == <<"train">> \o Repeat(IterationOps, tmArgs.n_iters) \o <<"eval">>
    IN  /\ IsPrefix(tmTrace, whole)
        /\ tmPc \notin {"idle", "done"} => tmMode = "train"
        /\ tmPc = "done" =>
              /\ tmTrace = whole
              /\ tmMode = "eval"
              /\ CountOf("step", tmTrace) = tmArgs.n_iters
              /\ tmI = tmArgs.n_iters

\* train_model has returned after two iterations
C5_Witness ==
    /\ tmPc = "done"
    /\ tmArgs.n_iters = 2
    /\ CountOf("step", tmTrace) = 2
    /\ tmMode = "eval"

\* C7: next_batch continues the current pass and starts a new one only when it
\* is exhausted, so no example is drawn a second time before every example was
\* drawn once (and so on for every further pass).
C7_EveryExampleOncePerPass ==
    /\ \A e1, e2 \in 1..tmArgs.n : tmDrawn[e1] <= tmDrawn[e2] + 1
    /\ tmPc # "idle" =>
          LET perPass == (tmArgs.n + tmArgs.batch_size - 1) \div tmArgs.batch_size
              batches == CountOf("next_batch", tmTrace)
          IN  tmPasses = 1 + (IF batches = 0 THEN 0 ELSE (batches - 1) \div perPass)

(***************************************************************************)
(* tqdm_joblib                                                             *)
(***************************************************************************)
MaxBars == 2
MaxJobs == 2
Bars == 1..MaxBars
BatchSizes == {1, 2}

\* mutant: the restore and the close left out of the exception path (no
\* try/finally around the yield)
AfterExitNoFinally(frame, current, bar, raised) ==
    IF raised THEN [cls |-> current, bar |-> bar]
    ELSE [cls |-> frame.old, bar |-> "closed"]

\* lines 291-295: the finally clause runs however the body ends, restores
\* old_batch_callback and closes the bar
AfterExit(frame, current, bar, raised) ==
    [cls |-> frame.old, bar |-> "closed"]

\* mutant: the bar advanced by one per batch
CallbackCallsByOne(cls, id, size) ==
    [i \in 1..Len(cls) + 1 |->
        IF i <= Len(cls) THEN [call |-> "update", bar |-> cls[i], n |-> 1]
        ELSE [call |-> "original", bar |-> 0, n |-> size]]

\* lines 285-287, TqdmBatchCompletionCallback.__call__ of the class cls for a
\* batch of batch_size `size`: tqdm_object.update(n=self.batch_size), then
\* super().__call__(*args, **kwargs), which is the base class the patched class
\* was derived from (line 281): another patched class, or joblib's own
CallbackCalls(cls, id, size) ==
    [i \in 1..Len(cls) + 1 |->
        IF i <= Len(cls) THEN [call |-> "update", bar |-> cls[i], n |-> size]
        ELSE [call |-> "original", bar |-> 0, n |-> size]]

\* lines 279-292: entering the context derives the patched class from the
\* current BatchCompletionCallBack, keeps the current one and installs the new
Enter(b) ==
    /\ ~propagating
    /\ barState[b] = "new"
    /\ ctxStack' = Append(ctxStack, [bar |-> b, old |-> cbClass])
    /\ cbClass' = <<b>> \o cbClass
    /\ barState' = [barState EXCEPT ![b] = "open"]
    /\ UNCHANGED <<propagating, barN, jobs, submitted, cbLog, origCalls>>
    /\ UNCHANGED <<envVars, rewardVars, loadVars, trainVars>>

\* the body of the innermost context ends (Parallel's call has returned, so no
\* batch of it is outstanding): normally, or by raising
Leave(raised) ==
    /\ ctxStack # <<>>
    /\ \A j \in jobs : j.done
    /\ raised \/ ~propagating
    /\ LET frame == ctxStack[Len(ctxStack)]
           after == AfterExit(frame, cbClass, barState[frame.bar], raised)
       IN  /\ cbClass' = after.cls
           /\ barState' = [barState EXCEPT ![frame.bar] = after.bar]
    /\ ctxStack' = SubSeq(ctxStack, 1, Len(ctxStack) - 1)
    /\ propagating' = raised
    /\ UNCHANGED <<barN, jobs, submitted, cbLog, origCalls>>
    /\ UNCHANGED <<envVars, rewardVars, loadVars, trainVars>>

ExitNormally == Leave(FALSE)
ExitRaising == Leave(TRUE)

\* the propagating exception is caught by the code around the context
Catch ==
    /\ propagating
    /\ propagating' = FALSE
    /\ UNCHANGED <<cbClass, ctxStack, barState, barN, jobs, submitted, cbLog, origCalls>>
    /\ UNCHANGED <<envVars, rewardVars, loadVars, trainVars>>

\* joblib dispatches a batch: its completion callback is an instance of the
\* class joblib.parallel.BatchCompletionCallBack names at that moment
Dispatch(size) ==
    /\ ~propagating
    /\ Cardinality(jobs) < MaxJobs
    /\ jobs' = jobs \cup {[id |-> Cardinality(jobs) + 1, cls |-> cbClass,
                           size |-> size, done |-> FALSE]}
    /\ submitted' = [b \in Bars |->
                       IF \E i \in 1..Len(cbClass) : cbClass[i] = b
                       THEN submitted[b] + size ELSE submitted[b]]
    /\ UNCHANGED <<cbClass, ctxStack, propagating, barState, barN, cbLog, origCalls>>
    /\ UNCHANGED <<envVars, rewardVars, loadVars, trainVars>>

\* a batch completes and joblib calls its completion callback
Complete ==
    /\ \E j \in jobs :
          /\ ~j.done
          /\ LET calls == CallbackCalls(j.cls, j.id, j.size)
                 adv(b) == IF \E i \in 1..Len(calls) :
                                 calls[i].call = "update" /\ calls[i].bar = b
                           THEN (CHOOSE i \in 1..Len(calls) :
                                   calls[i].call = "update" /\ calls[i].bar = b)
                           ELSE 0
             IN  /\ cbLog' = calls
                 /\ barN' = [b \in Bars |->
                               barN[b] + (IF adv(b) = 0 THEN 0 ELSE calls[adv(b)].n)]
                 /\ origCalls' = origCalls \cup
                       {[id |-> j.id, batch_size |-> calls[i].n] :
                          i \in {k \in 1..Len(calls) : calls[k].call = "original"}}
          /\ jobs' = (jobs \ {j}) \cup {[j EXCEPT !.done = TRUE]}
    /\ UNCHANGED <<cbClass, ctxStack, propagating, barState, submitted>>
    /\ UNCHANGED <<envVars, rewardVars, loadVars, trainVars>>

InitTqdm ==
    /\ cbClass = <<>>
    /\ ctxStack = <<>>
    /\ propagating = FALSE
    /\ barState = [b \in Bars |-> "new"]
    /\ barN = [b \in Bars |-> 0]
    /\ jobs = {}
    /\ submitted = [b \in Bars |-> 0]
    /\ cbLog = <<>>
    /\ origCalls = {}

NextTqdm ==
    \/ \E b \in Bars : Enter(b)
    \/ ExitNormally
    \/ ExitRaising
    \/ Catch
    \/ \E n \in BatchSizes : Dispatch(n)
    \/ Complete

\* the bars of the contexts entered and not left, innermost first
OpenBars == [i \in 1..Len(ctxStack) |-> ctxStack[Len(ctxStack) + 1 - i].bar]

\* C3: while a body runs the class patched for its bar is installed; leaving a
\* context, normally or by an exception, restores the class installed when it
\* was entered and closes its bar, so that nested contexts unwind last in,
\* first out and with no context left joblib's own class is back.
C3_PatchRestored ==
    /\ cbClass = OpenBars
    /\ \A b \in Bars :
          /\ barState[b] = "open" <=> \E i \in 1..Len(ctxStack) : ctxStack[i].bar = b
          /\ barState[b] = "new" => barN[b] = 0
    /\ ctxStack = <<>> => cbClass = <<>>

\* the inner of two nested contexts was left by an exception that is still
\* propagating: its bar is closed and the outer patched class is installed again
C3_Witness ==
    /\ propagating
    /\ Len(ctxStack) = 1
    /\ cbClass = <<ctxStack[1].bar>>
    /\ \E b \in Bars : barState[b] = "closed"

\* C8: the completion callback of a batch dispatched inside a context advances
\* the bar by the batch's batch_size and then calls joblib's own callback with
\* the same arguments; once every batch has completed each bar has advanced by
\* the number of tasks submitted inside its context.
C8_BarCountsTasks ==
    /\ cbLog # <<>> =>
          /\ cbLog[Len(cbLog)].call = "original"
          /\ \A i \in 1..Len(cbLog) - 1 :
                cbLog[i].call = "update" /\ cbLog[i].n = cbLog[Len(cbLog)].n
    /\ \A j \in jobs :
          j.done <=> [id |-> j.id, batch_size |-> j.size] \in origCalls
    /\ (\A j \in jobs : j.done) => \A b \in Bars : barN[b] = submitted[b]
    /\ \A b \in Bars : barN[b] <= submitted[b]

\* two batches of sizes 1 and 2 dispatched inside one context have completed
\* and its bar stands at 3
C8_Witness ==
    /\ Cardinality(jobs) = 2
    /\ \A j \in jobs : j.done /\ j.cls # <<>>
    /\ {j.size : j \in jobs} = {1, 2}
    /\ \E b \in Bars : barN[b] = 3 /\ barState[b] = "open"
    /\ cbLog # <<>> /\ cbLog[1].call = "update"

\* Q symmetric positive semi-definite, R non-negative
IsPSD(fn) ==
    /\ fn.Q[1][2] = fn.Q[2][1]
    /\ fn.Q[1][1] >= 0
    /\ fn.Q[2][2] >= 0
    /\ fn.Q[1][1] * fn.Q[2][2] - fn.Q[1][2] * fn.Q[2][1] >= 0
    /\ fn.R >= 0

\* the outputs forward() has produced so far for the state rin.x
RewardOuts == {o[1] : o \in {outRaw, outEnc, outShift} \ {<<>>}}

\* 5 x (pole tip - target tip) of the raw state rin.x, from the geometry: the
\* tip of a pole of length l at angle theta on a cart at x is
\* (x + l sin(theta), -l cos(theta))
TipOffset ==
    LET l == rewardFn.pole_length
        t == rewardFn.target
    IN  <<5 * (rin.x[1] - t[1]) + l * (Sin5(rin.x[3]) - Sin5(t[3])),
          -l * (Cos5(rin.x[3]) - Cos5(t[3]))>>

\* 0.5 * (d Q d^T + u R u^T) with d = TipOffset / (5 * 2 * pole_length), times
\* 20000 * pole_length^2
ExpectedCostNum ==
    LET d == TipOffset
        Q == rewardFn.Q
        l == rewardFn.pole_length
    IN  100 * (Q[1][1] * d[1] * d[1] + (Q[1][2] + Q[2][1]) * d[1] * d[2]
               + Q[2][2] * d[2] * d[2])
        + l * l * rewardFn.R * rin.u * rin.u

RewardIsExpNegCost ==
    \A o \in RewardOuts :
        o.cost[1] = ExpectedCostNum
        /\ o.cost[2] = 20000 * rewardFn.pole_length * rewardFn.pole_length

\* the reward as a number: 0.0 when o.zero, else exp(-o.cost[1] / o.cost[2])
RewardPositive(o) == ~o.zero
RewardAtMostOne(o) == o.zero \/ o.cost[1] >= 0
RewardIsOne(o) == ~o.zero /\ o.cost[1] = 0

\* C4 as stated: the reward is exp(-cost) with cost = 0.5 (d Q d^T + u R u^T),
\* for positive semi-definite Q and R it lies in (0, 1], and it is 1 when the
\* pole tip is at the target tip and the action is zero.
C4_RewardInUnitInterval ==
    /\ RewardIsExpNegCost
    /\ IsPSD(rewardFn) =>
          \A o \in RewardOuts :
              /\ RewardPositive(o) /\ RewardAtMostOne(o)
              /\ (TipOffset = <<0, 0>> /\ rin.u = 0) => RewardIsOne(o)

\* C4 amended: the reward is the float32 value of exp(-cost) with cost =
\* 0.5 (d Q d^T + u R u^T); for positive semi-definite Q and R it lies in
\* [0, 1], is positive while the cost is at most 87 and is 0.0 (the float32
\* exponential underflows) once the cost is 104 or more, and it is 1 when the
\* pole tip is at the target tip and the action is zero.
C4_RewardInClosedUnitInterval ==
    /\ RewardIsExpNegCost
    /\ IsPSD(rewardFn) =>
          \A o \in RewardOuts :
              /\ RewardAtMostOne(o)
              /\ o.cost[1] <= 87 * o.cost[2] => RewardPositive(o)
              /\ o.cost[1] >= 104 * o.cost[2] => ~RewardPositive(o)
              /\ (TipOffset = <<0, 0>> /\ rin.u = 0) => RewardIsOne(o)

\* forward() applied with the default Q and R to a state 4 m from the target:
\* the cost is 128 and the float32 reward is 0.0
C4_Witness ==
    /\ outRaw # <<>>
    /\ rewardFn.Q = DefaultQ /\ rewardFn.R = DefaultR
    /\ rewardFn.target = DefaultTarget
    /\ rin.x[1] = -40 /\ rin.x[3] = Pi /\ rin.u = 0
    /\ outRaw[1].zero
    /\ outRaw[1].cost[1] = 128 * outRaw[1].cost[2]

C9_CostAtOriginIsOne ==
    ( /\ outRaw # <<>>
      /\ rewardFn.target = DefaultTarget
      /\ rewardFn.Q = DefaultQ /\ rewardFn.R = DefaultR
      /\ rin.x = <<0, 0, 0, 0>> /\ rin.u = 0 )
    => outRaw[1].cost[1] = outRaw[1].cost[2]

InitEnv ==
    /\ state = None
    /\ lastStep = <<>>
    /\ viewer = FALSE
    /\ carttrans = <<>>
    /\ poletrans = <<>>
    /\ renderRet = "NotCalled"
    /\ rendered = <<>>

\* the reward module as constructed with its defaults, not yet applied
IdleReward ==
    /\ rewardFn = [Q |-> DefaultQ, R |-> DefaultR, target |-> DefaultTarget,
                   pole_length |-> DefaultPoleLength]
    /\ rin = [x |-> <<0, 0, 0, 0>>, u |-> 0]
    /\ outRaw = <<>>
    /\ outEnc = <<>>
    /\ outShift = <<>>

Init == InitEnv /\ IdleReward /\ InitLoad /\ InitTrain /\ InitTqdm

NextStep ==
    \/ \E s \in StepStates : Reset(s)
    \/ \E a \in Actions, xl \in XLims, al \in AngLims : Step(a, xl, al)

NextRender ==
    \/ \E s \in RenderStates : Reset(s)
    \/ \E m \in Modes, N \in 0..MaxTrail : Render(m, N)

SpecStep == Init /\ [][NextStep]_vars
SpecRender == Init /\ [][NextRender]_vars

\* the reward module constructed with some parameters, and an input drawn for it
InitForward == InitEnv /\ InitReward /\ InitLoad /\ InitTrain /\ InitTqdm
SpecReward == InitForward /\ [][NextReward]_vars

SpecLoad == Init /\ [][NextLoadCheckpoint]_vars

SpecTrain == Init /\ [][NextTrain]_vars

SpecTqdm == Init /\ [][NextTqdm]_vars

Next == NextStep \/ NextRender \/ NextReward \/ NextLoadCheckpoint \/ NextTrain \/ NextTqdm
Spec == Init /\ [][Next]_vars
====
